---- MODULE Spec2Model ----
(***************************************************************************)
(* Model of the leveled JSON logger pdalog: Level, Logger, Event, Hook.    *)
(* Goroutines call the Logger API; Msg is split at its lock acquisition,   *)
(* its sink write and each iteration of its hook loop.                     *)
(***************************************************************************)
EXTENDS Integers, Sequences, FiniteSets, TLC

\* ------------------------------------------------------------------ bounds
MaxLoggers == 2     \* Logger objects: the one constructed plus those from With
MaxChain == 3       \* the same, in the runs about context fields
MaxEvents == 1      \* calls of Debug/Info/Warn/Error/Fatal
MaxHookEvents == 2  \* the same, in the runs about hooks
MaxSetters == 1     \* field-setter calls on one event
MaxChainLen == 2    \* the same, in the runs about levels and the nil event
MaxAdds == 1        \* AddHook calls
MaxHookAdds == 3    \* the same, in the runs about hooks
MaxFailAdds == 2    \* the same, in the runs with failing writes and hooks
MaxConcEvents == 2  \* events, in the runs with two goroutines
MaxConcAdds == 2    \* AddHook calls, in the runs with two goroutines
MaxDerivedSets == 2 \* SetLevel calls, in the runs about derived Loggers
MaxDerivedAdds == 2 \* AddHook calls, in the runs about derived Loggers
MaxSets == 1        \* SetLevel calls
MaxClock == 1       \* readings of time.Now() that differ

\* ------------------------------------------------------------------ Level
DebugLevel == 0
InfoLevel == 1
WarnLevel == 2
ErrorLevel == 3
FatalLevel == 4

Levels == {DebugLevel, InfoLevel, WarnLevel, ErrorLevel, FatalLevel}

\* Level is an int8: SetLevel and Options.Level accept values that name no level.
LevelInputs == Levels \cup {FatalLevel + 1}

levelNames ==
  (DebugLevel :> "debug") @@ (InfoLevel :> "info") @@ (WarnLevel :> "warn")
    @@ (ErrorLevel :> "error") @@ (FatalLevel :> "fatal")

String(l) == IF l \in DOMAIN levelNames THEN levelNames[l] ELSE "unknown"

\* mutant: the names are matched without regard to case
ParseLevelFold(levelStr) ==
  CASE levelStr \in {"debug", "DEBUG", "Debug"} -> DebugLevel
    [] levelStr \in {"info", "INFO", "Info"} -> InfoLevel
    [] levelStr \in {"warn", "WARN", "Warn"} -> WarnLevel
    [] levelStr \in {"error", "ERROR", "Error"} -> ErrorLevel
    [] levelStr \in {"fatal", "FATAL", "Fatal"} -> FatalLevel
    [] OTHER -> InfoLevel

ParseLevel(levelStr) ==
  CASE levelStr = "debug" -> DebugLevel
    [] levelStr = "info" -> InfoLevel
    [] levelStr = "warn" -> WarnLevel
    [] levelStr = "error" -> ErrorLevel
    [] levelStr = "fatal" -> FatalLevel
    [] OTHER -> InfoLevel

\* ------------------------------------------------------------------ values
\* A Go interface{} value: its dynamic type and a token for its content.
Val(ty, v) == [type |-> ty, val |-> v]
Absent == Val("absent", "")
StrV(s) == Val("string", s)
ChanV == Val("chan", "ch")          \* a value encoding/json cannot marshal

Keys == {"level", "time", "message", "error", "component"}
EmptyFields == [k \in Keys |-> Absent]

\* time.Time.Format(layout): the text depends on the layout and on the instant.
RFC3339 == "2006-01-02T15:04:05Z07:00"
FormatText(instant, layout) == layout \o "@" \o instant
Format(t, layout) == FormatText(ToString(t), layout)

\* encoding/json on one value: durations become their nanosecond count, times
\* their RFC3339 text; channels are rejected.
Marshalable(v) == v.type # "chan"
JSONValue(v) ==
  CASE v.type = "string" -> [json |-> "string", text |-> v.val]
    [] v.type = "int" -> [json |-> "number", text |-> v.val]
    [] v.type = "bool" -> [json |-> "bool", text |-> v.val]
    [] v.type = "duration" -> [json |-> "number", text |-> v.val \o "000000000"]
    [] v.type = "time" -> [json |-> "string", text |-> FormatText(v.val, RFC3339)]
    [] OTHER -> [json |-> "error", text |-> ""]

\* json.Marshal(entry): an error when a value cannot be encoded, else the object
\* (encoding/json writes the keys of a map in sorted order, so the object is a
\* function of the map alone).
JAbsent == [json |-> "absent", text |-> ""]
\* mutant: the error of json.Marshal is not looked at
MarshalErrorIgnored(entry) == TRUE

MarshalOK(entry) == \A k \in Keys : Marshalable(entry[k])
Marshal(entry) ==
  [k \in Keys |-> IF entry[k] = Absent THEN JAbsent ELSE JSONValue(entry[k])]
NoData == [obj |-> [k \in Keys |-> JAbsent], nl |-> 0]

\* ------------------------------------------------------------------ hooks
\* The Hook values of the program: Levels() of each (MockHook(levels...)).
HookIds == {"hInfoErr", "hAll", "hDup"}
\* A Hook of another kind, which the interface admits: its Fire writes to the
\* map it is given (entry["message"] = "redacted"); it subscribes to every level.
MutatingHooks == {"hRedact"}
\* And one whose Fire calls SetLevel(WarnLevel) on the first Logger, the one it
\* was built around; it subscribes to every level too.
ReentrantHooks == {"hSetLevel"}
ReentryTarget == 1
AllHooks == HookIds \cup MutatingHooks \cup ReentrantHooks
HookLevels(h) ==
  CASE h = "hInfoErr" -> <<InfoLevel, ErrorLevel>>
    [] h \in {"hAll", "hRedact", "hSetLevel"} ->
         <<DebugLevel, InfoLevel, WarnLevel, ErrorLevel, FatalLevel>>
    [] OTHER -> <<InfoLevel, InfoLevel, FatalLevel>>

\* hook.Fire(entry): the map after the call. A map is passed by reference.
Fire(hook, entry) ==
  IF hook \in MutatingHooks THEN [entry EXCEPT !["message"] = StrV("redacted")]
  ELSE entry

\* ------------------------------------------------------------------ state
Goroutines == {"g1", "g2"}
NoGoroutine == "none"

VARIABLES
  loggers,     \* the Logger objects, in order of construction
  derivation,  \* ghost: for each Logger, the With call that made it
  made,        \* ghost: the constructor call that made loggers[1]
  regCount,    \* ghost: per Logger and Hook, AddHook calls not yet undone by a RemoveHook
  now,         \* the clock read by time.Now()
  nEvents,     \* ghost: events requested so far (their ids)
  nAdds,       \* ghost: AddHook calls so far (their registration numbers)
  nSets,       \* ghost: SetLevel calls so far
  pc,          \* per goroutine: its position
  ev,          \* per goroutine: the *Event it holds
  loc,         \* per goroutine: the locals of the call it is in
  sink,        \* the Write calls the writer received
  fired,       \* the Fire calls the hooks received
  stderr,      \* the diagnostics printed to os.Stderr
  exited       \* os.Exit was called

vars == <<loggers, derivation, made, regCount, now, nEvents, nAdds, nSets, pc, ev, loc,
          sink, fired, stderr, exited>>

\* ------------------------------------------------------------------ Logger
Logger(writer, level, timeFormat, contextFields) ==
  [writer |-> writer, level |-> level, timeFormat |-> timeFormat,
   contextFields |-> contextFields, hooks |-> <<>>, mu |-> NoGoroutine]

\* Options as the caller wrote them: the fields not given hold Go's zero values.
DefaultOptions == [Writer |-> "stdout", Level |-> InfoLevel, TimeFormat |-> RFC3339]
Options(given, o) ==
  [Writer |-> IF "Writer" \in given THEN o.Writer ELSE "nil",
   Level |-> IF "Level" \in given THEN o.Level ELSE 0,
   TimeFormat |-> IF "TimeFormat" \in given THEN o.TimeFormat ELSE ""]

New(opts) ==
  Logger(IF opts.Writer = "nil" THEN "stdout" ELSE opts.Writer,
         opts.Level,
         IF opts.TimeFormat = "" THEN RFC3339 ELSE opts.TimeFormat,
         EmptyFields)

NewConsoleLogger == New(DefaultOptions)

\* The constructor calls the model starts from: pdalog.NewConsoleLogger(),
\* pdalog.New(pdalog.Options{Writer: buf}).
ConsoleConstruction ==
  [ctor |-> "NewConsoleLogger", given |-> {}, opts |-> DefaultOptions]
WriterConstruction ==
  [ctor |-> "New", given |-> {"Writer"}, opts |-> Options({"Writer"}, [Writer |-> "buf"])]

\* ------------------------------------------------------------------ Event
\* ev[g]: the *Event a goroutine holds. nil is the nil pointer. The g-fields are
\* ghosts: the id of the request, the level asked for, the Logger asked, the
\* minimum level newEvent read, the setter calls made and the keys they set,
\* and whether newEvent read the level while a SetLevel call held the lock.
NoEvent ==
  [held |-> FALSE, nil |-> TRUE, logger |-> 0, level |-> 0, fields |-> EmptyFields,
   time |-> 0, gid |-> 0, glevel |-> 0, glogger |-> 0, gmin |-> 0, gcalls |-> 0,
   gset |-> {}, graced |-> FALSE]

NoLocals ==
  [msg |-> "", entry |-> EmptyFields, jsonData |-> NoData, rng |-> <<>>, arg |-> 0,
   on |-> 0, out |-> "", subject |-> <<>>, todo |-> {}]

InitOf(constructions) ==
  /\ \E c \in constructions :
       /\ made = c
       /\ loggers = << IF c.ctor = "New" THEN New(c.opts) ELSE NewConsoleLogger >>
  /\ derivation = << [parent |-> 0, key |-> "", value |-> Absent] >>
  /\ regCount = << [h \in AllHooks |-> 0] >>
  /\ now = 0
  /\ nEvents = 0
  /\ nAdds = 0
  /\ nSets = 0
  /\ pc = [g \in Goroutines |-> "idle"]
  /\ ev = [g \in Goroutines |-> NoEvent]
  /\ loc = [g \in Goroutines |-> NoLocals]
  /\ sink = <<>>
  /\ fired = <<>>
  /\ stderr = <<>>
  /\ exited = FALSE

LoggerIds == 1..Len(loggers)
Idle(g) == ~exited /\ pc[g] = "idle"

\* time passes
Tick ==
  /\ ~exited
  /\ now < MaxClock
  /\ now' = now + 1
  /\ UNCHANGED <<loggers, derivation, made, regCount, nEvents, nAdds, nSets, pc, ev, loc,
                 sink, fired, stderr, exited>>

\* ---- ParseLevel and Level.String, called by a goroutine: the argument and the
\* result are its locals (msg the string, arg the Level)
ParseLevelCall(g, levelStr) ==
  /\ Idle(g)
  /\ loc' = [loc EXCEPT ![g] = [NoLocals EXCEPT !.msg = levelStr,
                                                !.arg = ParseLevel(levelStr),
                                                !.out = "ParseLevel"]]
  /\ UNCHANGED <<loggers, derivation, made, regCount, now, nEvents, nAdds, nSets, pc, ev,
                 sink, fired, stderr, exited>>

StringCall(g, l) ==
  /\ Idle(g)
  /\ loc' = [loc EXCEPT ![g] = [NoLocals EXCEPT !.msg = String(l), !.arg = l,
                                                !.out = "String"]]
  /\ UNCHANGED <<loggers, derivation, made, regCount, now, nEvents, nAdds, nSets, pc, ev,
                 sink, fired, stderr, exited>>

\* ---- SetLevel: Lock, then the store and the deferred Unlock
SetLevelLock(g, l, level) ==
  /\ Idle(g)
  /\ loggers[l].mu = NoGoroutine
  /\ loggers' = [loggers EXCEPT ![l].mu = g]
  /\ pc' = [pc EXCEPT ![g] = "SetLevel"]
  /\ loc' = [loc EXCEPT ![g] = [NoLocals EXCEPT !.on = l, !.arg = level]]
  /\ nSets' = nSets + 1
  /\ UNCHANGED <<derivation, made, regCount, now, nEvents, nAdds, ev, sink, fired,
                 stderr, exited>>

\* mutant: the level is one cell shared by a Logger and those derived from it
SetLevelStoreShared(g) ==
  /\ ~exited
  /\ pc[g] = "SetLevel"
  /\ loggers' = [l \in LoggerIds |->
                   [loggers[l] EXCEPT
                      !.level = loc[g].arg,
                      !.mu = IF l = loc[g].on THEN NoGoroutine ELSE @]]
  /\ pc' = [pc EXCEPT ![g] = "idle"]
  /\ loc' = [loc EXCEPT ![g] = NoLocals]
  /\ UNCHANGED <<derivation, made, regCount, now, nEvents, nAdds, nSets, ev, sink, fired,
                 stderr, exited>>

SetLevelStore(g) ==
  /\ ~exited
  /\ pc[g] = "SetLevel"
  /\ loggers' = [loggers EXCEPT ![loc[g].on].level = loc[g].arg,
                                ![loc[g].on].mu = NoGoroutine]
  /\ pc' = [pc EXCEPT ![g] = "idle"]
  /\ loc' = [loc EXCEPT ![g] = NoLocals]
  /\ UNCHANGED <<derivation, made, regCount, now, nEvents, nAdds, nSets, ev, sink, fired,
                 stderr, exited>>

\* ---- GetLevel: Lock, the read, the deferred Unlock; the result is a local
GetLevel(g, l) ==
  /\ Idle(g)
  /\ loggers[l].mu = NoGoroutine
  /\ loc' = [loc EXCEPT ![g] = [NoLocals EXCEPT !.on = l, !.arg = loggers[l].level,
                                                !.out = "GetLevel"]]
  /\ UNCHANGED <<loggers, derivation, made, regCount, now, nEvents, nAdds, nSets, pc, ev,
                 sink, fired, stderr, exited>>

\* ---- With: a new Logger; reads the receiver without its lock
\* mutant: the new Logger takes over the receiver's hook list
WithLoggerKeepsHooks(lg, key, value) ==
  [Logger(lg.writer, lg.level, lg.timeFormat, lg.contextFields)
     EXCEPT !.contextFields[key] = value, !.hooks = lg.hooks]

\* mutant: the parent's fields copied after the new field was added
WithLoggerCopyLast(lg, key, value) ==
  [Logger(lg.writer, lg.level, lg.timeFormat, lg.contextFields)
     EXCEPT !.contextFields[key] =
              IF lg.contextFields[key] # Absent THEN lg.contextFields[key] ELSE value]

WithLogger(lg, key, value) ==
  [Logger(lg.writer, lg.level, lg.timeFormat, lg.contextFields)
     EXCEPT !.contextFields[key] = value]

\* mutant: the new Logger shares the receiver's map, so the add reaches the receiver
WithAliased(g, l, key, value) ==
  /\ ~exited /\ pc[g] = "idle"
  /\ loggers' = Append([loggers EXCEPT ![l].contextFields[key] = value],
                       [Logger(loggers[l].writer, loggers[l].level,
                               loggers[l].timeFormat, loggers[l].contextFields)
                          EXCEPT !.contextFields[key] = value])
  /\ derivation' = Append(derivation, [parent |-> l, key |-> key, value |-> value])
  /\ regCount' = Append(regCount, [h \in AllHooks |-> 0])
  /\ UNCHANGED <<made, now, nEvents, nAdds, nSets, pc, ev, loc, sink, fired, stderr, exited>>

With(g, l, key, value) ==
  /\ Idle(g)
  /\ loggers' = Append(loggers, WithLogger(loggers[l], key, value))
  /\ derivation' = Append(derivation, [parent |-> l, key |-> key, value |-> value])
  /\ regCount' = Append(regCount, [h \in AllHooks |-> 0])
  /\ UNCHANGED <<made, now, nEvents, nAdds, nSets, pc, ev, loc, sink, fired, stderr, exited>>

\* ---- AddHook / RemoveHook: the whole call runs under the lock
\* An element of hooks is the Hook; reg is a ghost, the number of the AddHook call.
\* mutant: a hook that is already in the list is not added again
AppendHookOnce(hs, hook, reg) ==
  IF \E i \in 1..Len(hs) : hs[i].hook = hook THEN hs
  ELSE Append(hs, [hook |-> hook, reg |-> reg])

AppendHook(hs, hook, reg) == Append(hs, [hook |-> hook, reg |-> reg])

\* l.hooks = append(l.hooks, hook), under the lock
AddHookOn(l, hook) ==
  /\ loggers[l].mu = NoGoroutine
  /\ loggers' = [loggers EXCEPT ![l].hooks = AppendHook(@, hook, nAdds + 1)]
  /\ nAdds' = nAdds + 1
  /\ regCount' = [regCount EXCEPT ![l][hook] = @ + 1]

AddHook(g, l, hook) ==
  /\ Idle(g)
  /\ AddHookOn(l, hook)
  /\ UNCHANGED <<derivation, made, now, nEvents, nSets, pc, ev, loc, sink, fired, stderr,
                 exited>>

\* log.AddHook(hook).<next call>: the *Logger AddHook returns (return l) is the
\* receiver of the call chained to it; the goroutine holds it in on
AddHookChained(g, l, hook) ==
  /\ Idle(g)
  /\ AddHookOn(l, hook)
  /\ pc' = [pc EXCEPT ![g] = "chain"]
  /\ loc' = [loc EXCEPT ![g] = [NoLocals EXCEPT !.on = l, !.out = "AddHook"]]
  /\ UNCHANGED <<derivation, made, now, nEvents, nSets, ev, sink, fired, stderr, exited>>

\* the chained call is AddHook
ChainAddHook(g, hook) ==
  /\ ~exited
  /\ pc[g] = "chain"
  /\ AddHookOn(loc[g].on, hook)
  /\ pc' = [pc EXCEPT ![g] = "idle"]
  /\ loc' = [loc EXCEPT ![g] = NoLocals]
  /\ UNCHANGED <<derivation, made, now, nEvents, nSets, ev, sink, fired, stderr, exited>>

\* for i, h := range l.hooks { if h == hook { remove i; break } }
FirstMatch(hs, hook) ==
  IF \E i \in 1..Len(hs) : hs[i].hook = hook
    THEN CHOOSE i \in 1..Len(hs) :
           /\ hs[i].hook = hook
           /\ \A j \in 1..(i - 1) : hs[j].hook # hook
    ELSE 0

\* mutant: the last element moved into the hole
RemoveAtSwap(hs, i) ==
  IF i = Len(hs) THEN SubSeq(hs, 1, i - 1)
  ELSE [SubSeq(hs, 1, Len(hs) - 1) EXCEPT ![i] = hs[Len(hs)]]

RemoveAt(hs, i) == SubSeq(hs, 1, i - 1) \o SubSeq(hs, i + 1, Len(hs))

\* mutant: the result of append is dropped
RemoveFirstDropped(hs, hook) == hs

RemoveFirst(hs, hook) ==
  IF FirstMatch(hs, hook) = 0 THEN hs ELSE RemoveAt(hs, FirstMatch(hs, hook))

\* the loop of RemoveHook, under the lock
RemoveHookOn(l, hook) ==
  /\ loggers[l].mu = NoGoroutine
  /\ loggers' = [loggers EXCEPT ![l].hooks = RemoveFirst(@, hook)]
  /\ regCount' = [regCount EXCEPT ![l][hook] = IF @ > 0 THEN @ - 1 ELSE 0]

RemoveHook(g, l, hook) ==
  /\ Idle(g)
  /\ RemoveHookOn(l, hook)
  /\ UNCHANGED <<derivation, made, now, nEvents, nAdds, nSets, pc, ev, loc, sink, fired,
                 stderr, exited>>

\* log.RemoveHook(hook).<next call>: RemoveHook returns l as AddHook does
RemoveHookChained(g, l, hook) ==
  /\ Idle(g)
  /\ RemoveHookOn(l, hook)
  /\ pc' = [pc EXCEPT ![g] = "chain"]
  /\ loc' = [loc EXCEPT ![g] = [NoLocals EXCEPT !.on = l, !.out = "RemoveHook"]]
  /\ UNCHANGED <<derivation, made, now, nEvents, nAdds, nSets, ev, sink, fired, stderr,
                 exited>>

\* ---- newEvent, behind Debug/Info/Warn/Error/Fatal; reads l.level without the lock
\* mutant: <= for <
BelowOrEqual(level, min) == level <= min

Below(level, min) == level < min

\* mutant: no level check
newEventUnfiltered(l, level) ==
  [NoEvent EXCEPT !.held = TRUE, !.nil = FALSE, !.logger = l, !.level = level,
                  !.fields = loggers[l].contextFields, !.time = now]

newEvent(l, level) ==
  IF Below(level, loggers[l].level)
    THEN [NoEvent EXCEPT !.held = TRUE]
    ELSE [NoEvent EXCEPT !.held = TRUE, !.nil = FALSE, !.logger = l, !.level = level,
                         !.fields = loggers[l].contextFields, !.time = now]

Request(g, l, level) ==
  /\ Idle(g)
  /\ ~ev[g].held
  /\ nEvents' = nEvents + 1
  /\ ev' = [ev EXCEPT ![g] = [newEvent(l, level) EXCEPT
                                !.gid = nEvents + 1, !.glevel = level, !.glogger = l,
                                !.gmin = loggers[l].level,
                                !.graced = \E g2 \in Goroutines \ {g} :
                                             pc[g2] = "SetLevel" /\ loc[g2].on = l]]
  /\ UNCHANGED <<loggers, derivation, made, regCount, now, nAdds, nSets, pc, loc, sink,
                 fired, stderr, exited>>

Debug(g, l) == Request(g, l, DebugLevel)
Info(g, l) == Request(g, l, InfoLevel)
Warn(g, l) == Request(g, l, WarnLevel)
Error(g, l) == Request(g, l, ErrorLevel)
Fatal(g, l) == Request(g, l, FatalLevel)

\* ---- the field setters
\* if e == nil { return nil }; e.fields[key] = val; return e
SetField(e, key, val) == IF e.nil THEN e ELSE [e EXCEPT !.fields[key] = val]

\* mutant: the event's map is the Logger's map, not a copy of it
SetterAliased(g, e, keys) ==
  /\ Idle(g)
  /\ ev[g].held
  /\ ev' = [ev EXCEPT ![g] = [e EXCEPT !.gcalls = @ + 1, !.gset = @ \cup keys]]
  /\ loggers' = IF e.nil THEN loggers
                ELSE [loggers EXCEPT ![e.logger].contextFields = e.fields]
  /\ UNCHANGED <<derivation, made, regCount, now, nEvents, nAdds, nSets, pc, loc,
                 sink, fired, stderr, exited>>

\* A setter call by goroutine g that leaves it holding e; keys: the keys it set.
Setter(g, e, keys) ==
  /\ Idle(g)
  /\ ev[g].held
  /\ ev' = [ev EXCEPT ![g] = [e EXCEPT !.gcalls = @ + 1, !.gset = @ \cup keys]]
  /\ UNCHANGED <<loggers, derivation, made, regCount, now, nEvents, nAdds, nSets, pc, loc,
                 sink, fired, stderr, exited>>

\* fmt.Sprintf("%x", val) on a byte slice: two lowercase hex digits per byte
HexDigits ==
  <<"0", "1", "2", "3", "4", "5", "6", "7", "8", "9", "a", "b", "c", "d", "e", "f">>
RECURSIVE HexOf(_)
HexOf(bytes) ==
  IF bytes = <<>> THEN ""
  ELSE HexDigits[(bytes[1] \div 16) + 1] \o HexDigits[(bytes[1] % 16) + 1]
         \o HexOf(Tail(bytes))

\* mutant: no nil check, the nil error is formatted
ErrFieldNoNilCheck(e, err) ==
  IF e.nil THEN e
  ELSE [e EXCEPT !.fields["error"] = StrV(IF err = "nil" THEN "<nil>" ELSE err)]

\* Err: if err == nil { return e }; e.fields["error"] = err.Error()
ErrField(e, err) ==
  IF e.nil THEN e ELSE IF err = "nil" THEN e ELSE [e EXCEPT !.fields["error"] = StrV(err)]

Str(g, key, val) == Setter(g, SetField(ev[g], key, StrV(val)), {key})
SetInt(g, key, val) == Setter(g, SetField(ev[g], key, Val("int", val)), {key})
Bool(g, key, val) == Setter(g, SetField(ev[g], key, Val("bool", val)), {key})
SetAny(g, key, val) == Setter(g, SetField(ev[g], key, val), {key})
Duration(g, key, val) == Setter(g, SetField(ev[g], key, Val("duration", val)), {key})
Time(g, key, val) == Setter(g, SetField(ev[g], key, Val("time", ToString(val))), {key})
Hex(g, key, val) == Setter(g, SetField(ev[g], key, StrV(HexOf(val))), {key})
Err(g, err) == Setter(g, ErrField(ev[g], err), IF err = "nil" THEN {} ELSE {"error"})

\* ------------------------------------------------------------------ Msg
\* The entry Msg builds: the reserved keys first, then every field of the event
\* assigned over them.
BuildEntry(level, time, timeFormat, msg, fields) ==
  LET reserved == [EmptyFields EXCEPT !["level"] = StrV(String(level)),
                                      !["time"] = StrV(Format(time, timeFormat)),
                                      !["message"] = StrV(msg)]
  IN  [k \in Keys |-> IF fields[k] # Absent THEN fields[k] ELSE reserved[k]]

\* mutant: the timestamp is taken when Msg builds the entry
EntryOfNow(e, msg) ==
  BuildEntry(e.level, now, loggers[e.logger].timeFormat, msg, e.fields)

EntryOf(e, msg) ==
  BuildEntry(e.level, e.time, loggers[e.logger].timeFormat, msg, e.fields)

\* mutant: Msg compares the level again
SuppressedNow(e) == e.nil \/ e.level < loggers[e.logger].level

\* if e == nil { return }
Suppressed(e) == e.nil

Diag(what, id) == [what |-> what, gid |-> id]

\* Msg up to the Lock: the nil check, the entry, json.Marshal
Msg(g, msg) ==
  /\ Idle(g)
  /\ ev[g].held
  /\ IF Suppressed(ev[g])
       THEN /\ pc' = [pc EXCEPT ![g] = "ret"]
            /\ loc' = [loc EXCEPT ![g] = [NoLocals EXCEPT !.msg = msg, !.out = "nil"]]
            /\ UNCHANGED stderr
       ELSE IF ~MarshalOK(EntryOf(ev[g], msg))
         THEN /\ pc' = [pc EXCEPT ![g] = "ret"]
              /\ loc' = [loc EXCEPT ![g] = [NoLocals EXCEPT
                                              !.msg = msg, !.out = "marshal",
                                              !.entry = EntryOf(ev[g], msg)]]
              /\ stderr' = Append(stderr, Diag("marshal", ev[g].gid))
         ELSE /\ pc' = [pc EXCEPT ![g] = "lock"]
              /\ loc' = [loc EXCEPT ![g] = [NoLocals EXCEPT
                           !.msg = msg,
                           !.entry = EntryOf(ev[g], msg),
                           !.jsonData = [obj |-> Marshal(EntryOf(ev[g], msg)), nl |-> 0],
                           !.on = ev[g].logger]]
              /\ UNCHANGED stderr
  /\ UNCHANGED <<loggers, derivation, made, regCount, now, nEvents, nAdds, nSets, ev, sink,
                 fired, exited>>

\* mutant: the lock is taken without waiting for its holder
MsgLockNoWait(g) ==
  /\ ~exited
  /\ pc[g] = "lock"
  /\ loggers' = [loggers EXCEPT ![loc[g].on].mu = g]
  /\ pc' = [pc EXCEPT ![g] = "write"]
  /\ UNCHANGED <<derivation, made, regCount, now, nEvents, nAdds, nSets, ev, loc, sink,
                 fired, stderr, exited>>

\* e.logger.mu.Lock()
MsgLock(g) ==
  /\ ~exited
  /\ pc[g] = "lock"
  /\ loggers[loc[g].on].mu = NoGoroutine
  /\ loggers' = [loggers EXCEPT ![loc[g].on].mu = g]
  /\ pc' = [pc EXCEPT ![g] = "write"]
  /\ UNCHANGED <<derivation, made, regCount, now, nEvents, nAdds, nSets, ev, loc, sink,
                 fired, stderr, exited>>

\* mutant: a write error ends the emission, the hook loop is skipped
MsgWriteAborts(g, ok) ==
  /\ ~exited
  /\ pc[g] = "write"
  /\ LET data == [loc[g].jsonData EXCEPT !.nl = @ + 1]
     IN  /\ sink' = Append(sink, [gid |-> ev[g].gid, writer |-> loggers[loc[g].on].writer,
                                  data |-> data, by |-> g])
         /\ loc' = [loc EXCEPT ![g].jsonData = data,
                               ![g].rng = IF ok THEN loggers[loc[g].on].hooks ELSE <<>>]
  /\ stderr' = IF ok THEN stderr ELSE Append(stderr, Diag("write", ev[g].gid))
  /\ pc' = [pc EXCEPT ![g] = "hooks"]
  /\ UNCHANGED <<loggers, derivation, made, regCount, now, nEvents, nAdds, nSets, ev, fired,
                 exited>>

\* mutant: the lock is released right after the write, before the hook loop
MsgWriteUnlocks(g, ok) ==
  /\ ~exited
  /\ pc[g] = "write"
  /\ LET data == [loc[g].jsonData EXCEPT !.nl = @ + 1]
     IN  /\ sink' = Append(sink, [gid |-> ev[g].gid, writer |-> loggers[loc[g].on].writer,
                                  data |-> data, by |-> g])
         /\ loc' = [loc EXCEPT ![g].jsonData = data,
                               ![g].rng = loggers[loc[g].on].hooks]
  /\ stderr' = IF ok THEN stderr ELSE Append(stderr, Diag("write", ev[g].gid))
  /\ pc' = [pc EXCEPT ![g] = "hooks"]
  /\ loggers' = [loggers EXCEPT ![loc[g].on].mu = NoGoroutine]
  /\ UNCHANGED <<derivation, made, regCount, now, nEvents, nAdds, nSets, ev, fired, exited>>

\* jsonData = append(jsonData, '\n'); writer.Write(jsonData), which may fail
MsgWrite(g, ok) ==
  /\ ~exited
  /\ pc[g] = "write"
  /\ LET data == [loc[g].jsonData EXCEPT !.nl = @ + 1]
     IN  /\ sink' = Append(sink, [gid |-> ev[g].gid, writer |-> loggers[loc[g].on].writer,
                                  data |-> data, by |-> g])
         /\ loc' = [loc EXCEPT ![g].jsonData = data,
                               ![g].rng = loggers[loc[g].on].hooks]
  /\ stderr' = IF ok THEN stderr ELSE Append(stderr, Diag("write", ev[g].gid))
  /\ pc' = [pc EXCEPT ![g] = "hooks"]
  /\ UNCHANGED <<loggers, derivation, made, regCount, now, nEvents, nAdds, nSets, ev, fired,
                 exited>>

\* mutant: only the first level of Levels() is compared
ShouldFireFirst(hook, level) == HookLevels(hook)[1] = level

\* for _, level := range hook.Levels() { if level == e.level { shouldFire = true } }
ShouldFire(hook, level) ==
  \E i \in 1..Len(HookLevels(hook)) : HookLevels(hook)[i] = level

\* mutant: the loop is left at the first Fire that returns an error
MsgHookStopsOnError(g, ok) ==
  /\ ~exited
  /\ pc[g] = "hooks"
  /\ loc[g].rng # <<>>
  /\ Head(loc[g].rng).hook \notin ReentrantHooks
  /\ LET h == Head(loc[g].rng)
     IN  IF ShouldFire(h.hook, ev[g].level)
           THEN /\ fired' = Append(fired, [gid |-> ev[g].gid, hook |-> h.hook,
                                            reg |-> h.reg, logger |-> loc[g].on,
                                            entry |-> loc[g].entry])
                /\ stderr' = IF ok THEN stderr
                             ELSE Append(stderr, Diag("hook", ev[g].gid))
                /\ loc' = [loc EXCEPT ![g].rng = IF ok THEN Tail(@) ELSE <<>>,
                                      ![g].entry = Fire(h.hook, @)]
           ELSE /\ ok
                /\ loc' = [loc EXCEPT ![g].rng = Tail(@)]
                /\ UNCHANGED <<fired, stderr>>
  /\ UNCHANGED <<loggers, derivation, made, regCount, now, nEvents, nAdds, nSets, pc, ev,
                 sink, exited>>

\* one iteration of: for _, hook := range e.logger.hooks
MsgHook(g, ok) ==
  /\ ~exited
  /\ pc[g] = "hooks"
  /\ loc[g].rng # <<>>
  /\ Head(loc[g].rng).hook \notin ReentrantHooks
  /\ LET h == Head(loc[g].rng)
     IN  IF ShouldFire(h.hook, ev[g].level)
           THEN /\ fired' = Append(fired, [gid |-> ev[g].gid, hook |-> h.hook,
                                            reg |-> h.reg, logger |-> loc[g].on,
                                            entry |-> loc[g].entry])
                /\ stderr' = IF ok THEN stderr
                             ELSE Append(stderr, Diag("hook", ev[g].gid))
                /\ loc' = [loc EXCEPT ![g].rng = Tail(@),
                                      ![g].entry = Fire(h.hook, @)]
           ELSE /\ ok
                /\ loc' = [loc EXCEPT ![g].rng = Tail(@)]
                /\ UNCHANGED <<fired, stderr>>
  /\ UNCHANGED <<loggers, derivation, made, regCount, now, nEvents, nAdds, nSets, pc, ev,
                 sink, exited>>

\* one iteration of the hook loop for a hook whose Fire calls back into a
\* Logger: Fire is entered and stands at the Lock of SetLevel
MsgHookEnter(g) ==
  /\ ~exited
  /\ pc[g] = "hooks"
  /\ loc[g].rng # <<>>
  /\ Head(loc[g].rng).hook \in ReentrantHooks
  /\ ShouldFire(Head(loc[g].rng).hook, ev[g].level)
  /\ fired' = Append(fired, [gid |-> ev[g].gid, hook |-> Head(loc[g].rng).hook,
                             reg |-> Head(loc[g].rng).reg, logger |-> loc[g].on,
                             entry |-> loc[g].entry])
  /\ pc' = [pc EXCEPT ![g] = "fire"]
  /\ UNCHANGED <<loggers, derivation, made, regCount, now, nEvents, nAdds, nSets, ev, loc,
                 sink, stderr, exited>>

\* SetLevel inside Fire: Lock (sync.Mutex is not reentrant: it waits also for
\* the caller's own hold), the store, Unlock; then Fire returns nil
FireSetLevel(g) ==
  /\ ~exited
  /\ pc[g] = "fire"
  /\ loggers[ReentryTarget].mu = NoGoroutine
  /\ loggers' = [loggers EXCEPT ![ReentryTarget].level = WarnLevel]
  /\ pc' = [pc EXCEPT ![g] = "hooks"]
  /\ loc' = [loc EXCEPT ![g].rng = Tail(@)]
  /\ UNCHANGED <<derivation, made, regCount, now, nEvents, nAdds, nSets, ev, sink, fired,
                 stderr, exited>>

\* mutant: the exit is not held back until the hook loop is over
MsgEndEarly(g) ==
  /\ ~exited
  /\ pc[g] = "hooks"
  /\ IF ev[g].level = FatalLevel
       THEN /\ exited' = TRUE
            /\ pc' = [pc EXCEPT ![g] = "exit"]
            /\ UNCHANGED loggers
       ELSE /\ loc[g].rng = <<>>
            /\ loggers' = [loggers EXCEPT ![loc[g].on].mu = NoGoroutine]
            /\ pc' = [pc EXCEPT ![g] = "ret"]
            /\ UNCHANGED exited
  /\ loc' = [loc EXCEPT ![g].out = "done"]
  /\ UNCHANGED <<derivation, made, regCount, now, nEvents, nAdds, nSets, ev, sink, fired,
                 stderr>>

\* mutant: Msg returns without the Unlock
MsgEndKeepsLock(g) ==
  /\ ~exited
  /\ pc[g] = "hooks"
  /\ loc[g].rng = <<>>
  /\ IF ev[g].level = FatalLevel
       THEN /\ exited' = TRUE
            /\ pc' = [pc EXCEPT ![g] = "exit"]
       ELSE /\ pc' = [pc EXCEPT ![g] = "ret"]
            /\ UNCHANGED exited
  /\ loc' = [loc EXCEPT ![g].out = "done"]
  /\ UNCHANGED <<loggers, derivation, made, regCount, now, nEvents, nAdds, nSets, ev, sink,
                 fired, stderr>>

\* after the loop: os.Exit(1) for a Fatal event, else the deferred Unlock
MsgEnd(g) ==
  /\ ~exited
  /\ pc[g] = "hooks"
  /\ loc[g].rng = <<>>
  /\ IF ev[g].level = FatalLevel
       THEN /\ exited' = TRUE
            /\ pc' = [pc EXCEPT ![g] = "exit"]
            /\ UNCHANGED loggers
       ELSE /\ loggers' = [loggers EXCEPT ![loc[g].on].mu = NoGoroutine]
            /\ pc' = [pc EXCEPT ![g] = "ret"]
            /\ UNCHANGED exited
  /\ loc' = [loc EXCEPT ![g].out = "done"]
  /\ UNCHANGED <<derivation, made, regCount, now, nEvents, nAdds, nSets, ev, sink, fired,
                 stderr>>

\* Msg has returned to its caller, which drops the event
MsgReturn(g) ==
  /\ ~exited
  /\ pc[g] = "ret"
  /\ pc' = [pc EXCEPT ![g] = "idle"]
  /\ ev' = [ev EXCEPT ![g] = NoEvent]
  /\ loc' = [loc EXCEPT ![g] = NoLocals]
  /\ UNCHANGED <<loggers, derivation, made, regCount, now, nEvents, nAdds, nSets, sink,
                 fired, stderr, exited>>

\* ------------------------------------------------------------------ NatsHook
\* The bytes of a string, for the strings that are searched or inserted; a text
\* with no brace in it that is only inserted (a timestamp, a message) is one
\* opaque element.
Chars(s) ==
  CASE s = "level" ->
         <<"l", "e", "v", "e", "l">>
    [] s = "time" ->
         <<"t", "i", "m", "e">>
    [] s = "message" ->
         <<"m", "e", "s", "s", "a", "g", "e">>
    [] s = "error" ->
         <<"e", "r", "r", "o", "r">>
    [] s = "component" ->
         <<"c", "o", "m", "p", "o", "n", "e", "n", "t">>
    [] s = "info" ->
         <<"i", "n", "f", "o">>
    [] s = "api" ->
         <<"a", "p", "i">>
    [] s = "{level}" ->
         <<"{", "l", "e", "v", "e", "l", "}">>
    [] s = "logs.{level}.{component}" ->
         <<"l", "o", "g", "s", ".", "{", "l", "e", "v", "e", "l", "}", ".", "{", "c", "o", "m", "p", "o", "n", "e", "n", "t", "}">>
    [] s = "logs.{component}" ->
         <<"l", "o", "g", "s", ".", "{", "c", "o", "m", "p", "o", "n", "e", "n", "t", "}">>
    [] s = "logs.{level}.{user}" ->
         <<"l", "o", "g", "s", ".", "{", "l", "e", "v", "e", "l", "}", ".", "{", "u", "s", "e", "r", "}">>
    [] OTHER -> <<s>>

\* placeholder := "{" + key + "}"
Placeholder(key) == <<"{">> \o Chars(key) \o <<"}">>

\* strings.Replace(s, old, new, -1): the non-overlapping occurrences of old,
\* from the left
RECURSIVE Replace(_, _, _)
Replace(s, old, new) ==
  IF Len(s) < Len(old) THEN s
  ELSE IF SubSeq(s, 1, Len(old)) = old
    THEN new \o Replace(SubSeq(s, Len(old) + 1, Len(s)), old, new)
    ELSE <<s[1]>> \o Replace(Tail(s), old, new)

\* hook.Fire(entry) of a NatsHook with subject template h: subject := h.subject
NatsFire(g, h, entry) ==
  /\ Idle(g)
  /\ ~ev[g].held
  /\ pc' = [pc EXCEPT ![g] = "Fire"]
  /\ loc' = [loc EXCEPT ![g] = [NoLocals EXCEPT
                                  !.msg = h, !.entry = entry, !.subject = Chars(h),
                                  !.todo = {k \in Keys : entry[k] # Absent}]]
  /\ UNCHANGED <<loggers, derivation, made, regCount, now, nEvents, nAdds, nSets, ev, sink,
                 fired, stderr, exited>>

\* one iteration of: for key, value := range entry (a map: any key not yet
\* visited may come next)
NatsFireRange(g, key) ==
  /\ ~exited
  /\ pc[g] = "Fire"
  /\ key \in loc[g].todo
  /\ loc' = [loc EXCEPT
               ![g].todo = @ \ {key},
               ![g].subject =
                 IF loc[g].entry[key].type = "string"
                   THEN Replace(@, Placeholder(key), Chars(loc[g].entry[key].val))
                   ELSE @]
  /\ UNCHANGED <<loggers, derivation, made, regCount, now, nEvents, nAdds, nSets, pc, ev,
                 sink, fired, stderr, exited>>

\* json.Marshal(entry), then h.conn.Publish(subject, data), which may fail
NatsFirePublish(g, ok) ==
  /\ ~exited
  /\ pc[g] = "Fire"
  /\ loc[g].todo = {}
  /\ pc' = [pc EXCEPT ![g] = "published"]
  /\ loc' = [loc EXCEPT
               ![g].out = IF ~MarshalOK(loc[g].entry) THEN "marshal"
                          ELSE IF ok THEN "published" ELSE "error",
               ![g].jsonData = IF MarshalOK(loc[g].entry)
                                 THEN [obj |-> Marshal(loc[g].entry), nl |-> 0]
                                 ELSE NoData]
  /\ UNCHANGED <<loggers, derivation, made, regCount, now, nEvents, nAdds, nSets, ev, sink,
                 fired, stderr, exited>>

\* Fire has returned
NatsFireReturn(g) ==
  /\ ~exited
  /\ pc[g] = "published"
  /\ pc' = [pc EXCEPT ![g] = "idle"]
  /\ loc' = [loc EXCEPT ![g] = NoLocals]
  /\ UNCHANGED <<loggers, derivation, made, regCount, now, nEvents, nAdds, nSets, ev, sink,
                 fired, stderr, exited>>

\* ------------------------------------------------------------------ inputs
\* The arguments the calls are tried with: a record of small sets.
\*   G the goroutines, levels for SetLevel, with the <<key, value>> of With,
\*   hooks for AddHook/RemoveHook, strKeys x strVals for Str, keys for the other
\*   setters, msgs for Msg.
SetterKeys == {"level", "time", "message", "component"}

LevelRuns ==
  [G |-> {"g1"}, levels |-> LevelInputs,
   with |-> {<<"component", StrV("api")>>},
   hooks |-> {"hAll"},
   strKeys |-> {"component"}, strVals |-> {"api"}, keys |-> {"component"},
   msgs |-> {"m"}, writeOK |-> {TRUE}, fireOK |-> {TRUE},
   loggers |-> MaxLoggers, events |-> MaxEvents, setters |-> MaxChainLen,
   adds |-> MaxAdds, sets |-> MaxSets]

FieldRuns ==
  [G |-> {"g1"}, levels |-> {ErrorLevel},
   with |-> {<<"component", StrV("api")>>, <<"component", StrV("db")>>,
             <<"level", StrV("db")>>},
   hooks |-> {"hAll"},
   strKeys |-> SetterKeys, strVals |-> {"x"}, keys |-> {"component"},
   msgs |-> {"m"}, writeOK |-> {TRUE}, fireOK |-> {TRUE},
   loggers |-> MaxChain, events |-> MaxEvents, setters |-> MaxSetters,
   adds |-> MaxAdds, sets |-> MaxSets]

HookRuns ==
  [G |-> {"g1"}, levels |-> {WarnLevel},
   with |-> {<<"component", StrV("api")>>},
   hooks |-> HookIds,
   strKeys |-> {"component"}, strVals |-> {"api"}, keys |-> {"component"},
   msgs |-> {"m"}, writeOK |-> {TRUE}, fireOK |-> {TRUE},
   loggers |-> MaxLoggers, events |-> MaxHookEvents, setters |-> MaxSetters,
   adds |-> MaxHookAdds, sets |-> MaxSets]

\* a writer whose Write fails at times, hooks whose Fire fails at times
FailureRuns ==
  [G |-> {"g1"}, levels |-> {WarnLevel},
   with |-> {<<"component", StrV("api")>>},
   hooks |-> {"hAll", "hInfoErr"},
   strKeys |-> {"component"}, strVals |-> {"api"}, keys |-> {"component"},
   msgs |-> {"m"}, writeOK |-> BOOLEAN, fireOK |-> BOOLEAN,
   loggers |-> MaxLoggers, events |-> MaxHookEvents, setters |-> MaxSetters,
   adds |-> MaxFailAdds, sets |-> MaxSets]

\* two goroutines on the same Loggers
ConcurrentRuns ==
  [G |-> Goroutines, levels |-> {WarnLevel},
   with |-> {<<"component", StrV("api")>>},
   hooks |-> {"hAll"},
   strKeys |-> {"component"}, strVals |-> {"api"}, keys |-> {"component"},
   msgs |-> {"m"}, writeOK |-> {TRUE}, fireOK |-> {TRUE},
   loggers |-> MaxLoggers, events |-> MaxConcEvents, setters |-> MaxSetters,
   adds |-> MaxConcAdds, sets |-> MaxSets]

\* the strings ParseLevel is tried with: the five names, and strings that name
\* no level (empty, other case, longer, padded, the text String gives for 5)
LevelStrings ==
  {"debug", "info", "warn", "error", "fatal",
   "", "DEBUG", "Info", "Fatal", "invalid", "warning", " info", "unknown"}

\* the subject templates of the NatsHooks, and the entries Msg hands to Fire:
\* an Info event with message "m" and a component field
NatsSubjects == {"logs.{level}.{component}", "logs.{component}", "logs.{level}.{user}"}
NatsComponents == {Absent, StrV("api"), StrV("{level}"), Val("int", "123")}
NatsEntries ==
  {BuildEntry(InfoLevel, 0, RFC3339, "m", [EmptyFields EXCEPT !["component"] = c]) :
     c \in NatsComponents}

\* a Logger and the Logger derived from it: SetLevel, GetLevel and hooks on both
DerivedRuns ==
  [G |-> {"g1"}, levels |-> {WarnLevel, ErrorLevel},
   with |-> {<<"component", StrV("api")>>},
   hooks |-> {"hAll"},
   strKeys |-> {"component"}, strVals |-> {"api"}, keys |-> {"component"},
   msgs |-> {"m"}, writeOK |-> {TRUE}, fireOK |-> {TRUE},
   loggers |-> MaxLoggers, events |-> MaxEvents, setters |-> MaxSetters,
   adds |-> MaxDerivedAdds, sets |-> MaxDerivedSets]

\* hooks added twice, removed, and calls chained on the Logger AddHook returns
ChainRuns ==
  [G |-> {"g1"}, levels |-> {WarnLevel},
   with |-> {<<"component", StrV("api")>>},
   hooks |-> {"hAll", "hInfoErr"},
   strKeys |-> {"component"}, strVals |-> {"api"}, keys |-> {"component"},
   msgs |-> {"m"}, writeOK |-> {TRUE}, fireOK |-> {TRUE},
   loggers |-> MaxLoggers, events |-> MaxEvents, setters |-> MaxSetters,
   adds |-> MaxHookAdds, sets |-> MaxSets]

\* a hook that writes to the entry, registered before or after one that reads it
MutateRuns ==
  [G |-> {"g1"}, levels |-> {WarnLevel},
   with |-> {<<"component", StrV("api")>>},
   hooks |-> {"hRedact", "hAll"},
   strKeys |-> {"component"}, strVals |-> {"api"}, keys |-> {"component"},
   msgs |-> {"m"}, writeOK |-> {TRUE}, fireOK |-> {TRUE},
   loggers |-> MaxLoggers, events |-> MaxEvents, setters |-> MaxSetters,
   adds |-> MaxDerivedAdds, sets |-> MaxSets]

\* two goroutines holding events of the same Loggers, with call-site fields
\* under the key of a context field
EventRuns ==
  [G |-> Goroutines, levels |-> {WarnLevel},
   with |-> {<<"component", StrV("api")>>},
   hooks |-> {"hAll"},
   strKeys |-> {"component"}, strVals |-> {"x", "y"}, keys |-> {"component"},
   msgs |-> {"m"}, writeOK |-> {TRUE}, fireOK |-> {TRUE},
   loggers |-> MaxLoggers, events |-> MaxConcEvents, setters |-> MaxSetters,
   adds |-> MaxAdds, sets |-> MaxSets]

\* two goroutines creating and emitting events while the clock advances
ClockRuns ==
  [G |-> Goroutines, levels |-> {WarnLevel},
   with |-> {<<"component", StrV("api")>>},
   hooks |-> {"hAll"},
   strKeys |-> {"component"}, strVals |-> {"api"}, keys |-> {"component"},
   msgs |-> {"m"}, writeOK |-> {TRUE}, fireOK |-> {TRUE},
   loggers |-> MaxLoggers, events |-> MaxConcEvents, setters |-> MaxSetters,
   adds |-> MaxAdds, sets |-> MaxSets]

\* two goroutines on one Logger, with Write and Fire calls that return errors
FairRuns ==
  [G |-> Goroutines, levels |-> {WarnLevel},
   with |-> {<<"component", StrV("api")>>},
   hooks |-> {"hAll"},
   strKeys |-> {"component"}, strVals |-> {"api"}, keys |-> {"component"},
   msgs |-> {"m"}, writeOK |-> BOOLEAN, fireOK |-> BOOLEAN,
   loggers |-> 1, events |-> MaxConcEvents, setters |-> MaxSetters,
   adds |-> MaxAdds, sets |-> MaxSets]

\* a hook that calls back into the first Logger, registered on it or on the
\* Logger derived from it
ReentryRuns ==
  [G |-> {"g1"}, levels |-> {WarnLevel},
   with |-> {<<"component", StrV("api")>>},
   hooks |-> {"hSetLevel", "hAll"},
   strKeys |-> {"component"}, strVals |-> {"api"}, keys |-> {"component"},
   msgs |-> {"m"}, writeOK |-> {TRUE}, fireOK |-> {TRUE},
   loggers |-> MaxLoggers, events |-> MaxEvents, setters |-> MaxSetters,
   adds |-> MaxDerivedAdds, sets |-> MaxSets]

\* ------------------------------------------------------------------ Spec
\* The calls a goroutine of in.G can make, each with the inputs of in; the
\* counters of calls are capped by the bounds of in.
LoggerCalls(in) ==
  \/ \E g \in in.G, l \in LoggerIds, level \in in.levels :
       nSets < in.sets /\ SetLevelLock(g, l, level)
  \/ \E g \in in.G : SetLevelStore(g)
  \/ \E g \in in.G, l \in LoggerIds, kv \in in.with :
       Len(loggers) < in.loggers /\ With(g, l, kv[1], kv[2])

HookCalls(in) ==
  \/ \E g \in in.G, l \in LoggerIds, hook \in in.hooks :
       nAdds < in.adds /\ AddHook(g, l, hook)
  \/ \E g \in in.G, l \in LoggerIds, hook \in in.hooks : RemoveHook(g, l, hook)

EventCalls(in) ==
  \/ \E g \in in.G, l \in LoggerIds : nEvents < in.events /\ Debug(g, l)
  \/ \E g \in in.G, l \in LoggerIds : nEvents < in.events /\ Info(g, l)
  \/ \E g \in in.G, l \in LoggerIds : nEvents < in.events /\ Warn(g, l)
  \/ \E g \in in.G, l \in LoggerIds : nEvents < in.events /\ Error(g, l)
  \/ \E g \in in.G, l \in LoggerIds : nEvents < in.events /\ Fatal(g, l)

StrCalls(in) ==
  \E g \in in.G, key \in in.strKeys, val \in in.strVals :
    ev[g].gcalls < in.setters /\ Str(g, key, val)

SetterCalls(in) ==
  \/ \E g \in in.G, key \in in.keys : ev[g].gcalls < in.setters /\ SetInt(g, key, "123")
  \/ \E g \in in.G, key \in in.keys : ev[g].gcalls < in.setters /\ Bool(g, key, "true")
  \/ \E g \in in.G, key \in in.keys : ev[g].gcalls < in.setters /\ SetAny(g, key, ChanV)
  \/ \E g \in in.G, key \in in.keys : ev[g].gcalls < in.setters /\ Duration(g, key, "5")
  \/ \E g \in in.G, key \in in.keys, t \in 0..MaxClock :
       ev[g].gcalls < in.setters /\ Time(g, key, t)
  \/ \E g \in in.G, key \in in.keys :
       ev[g].gcalls < in.setters /\ Hex(g, key, <<222, 173>>)
  \/ \E g \in in.G, err \in {"nil", "boom"} : ev[g].gcalls < in.setters /\ Err(g, err)

MsgSteps(in) ==
  \/ \E g \in in.G, msg \in in.msgs : Msg(g, msg)
  \/ \E g \in in.G : MsgLock(g)
  \/ \E g \in in.G, ok \in in.writeOK : MsgWrite(g, ok)
  \/ \E g \in in.G, ok \in in.fireOK : MsgHook(g, ok)
  \/ \E g \in in.G : MsgEnd(g)
  \/ \E g \in in.G : MsgReturn(g)

\* One goroutine, every level against every minimum level, every setter, both
\* constructors.
Init == InitOf({ConsoleConstruction, WriterConstruction})
Next ==
  \/ LoggerCalls(LevelRuns)
  \/ HookCalls(LevelRuns)
  \/ EventCalls(LevelRuns)
  \/ StrCalls(LevelRuns)
  \/ SetterCalls(LevelRuns)
  \/ MsgSteps(LevelRuns)
Spec == Init /\ [][Next]_vars

\* One goroutine, context fields and call-site fields under colliding keys.
InitFields == InitOf({WriterConstruction})
NextFields ==
  \/ LoggerCalls(FieldRuns)
  \/ HookCalls(FieldRuns)
  \/ EventCalls(FieldRuns)
  \/ StrCalls(FieldRuns)
  \/ MsgSteps(FieldRuns)
SpecFields == InitFields /\ [][NextFields]_vars

\* One goroutine, several hooks registered and removed.
InitHooks == InitOf({WriterConstruction})
NextHooks ==
  \/ HookCalls(HookRuns)
  \/ EventCalls(HookRuns)
  \/ MsgSteps(HookRuns)
SpecHooks == InitHooks /\ [][NextHooks]_vars

\* One goroutine, Write and Fire calls that return errors.
InitFailures == InitOf({WriterConstruction})
NextFailures ==
  \/ HookCalls(FailureRuns)
  \/ EventCalls(FailureRuns)
  \/ MsgSteps(FailureRuns)
SpecFailures == InitFailures /\ [][NextFailures]_vars

\* Two goroutines calling SetLevel, With, AddHook, RemoveHook and emitting.
InitConcurrent == InitOf({WriterConstruction})
NextConcurrent ==
  \/ LoggerCalls(ConcurrentRuns)
  \/ HookCalls(ConcurrentRuns)
  \/ EventCalls(ConcurrentRuns)
  \/ MsgSteps(ConcurrentRuns)
SpecConcurrent == InitConcurrent /\ [][NextConcurrent]_vars

\* Calls of ParseLevel and Level.String.
InitLevels == InitOf({WriterConstruction})
NextLevels ==
  \/ \E g \in Goroutines, levelStr \in LevelStrings : ParseLevelCall(g, levelStr)
  \/ \E g \in Goroutines, l \in LevelInputs : StringCall(g, l)
SpecLevels == InitLevels /\ [][NextLevels]_vars

\* Fire calls on NatsHooks, from two goroutines.
InitNats == InitOf({WriterConstruction})
NextNats ==
  \/ \E g \in Goroutines, h \in NatsSubjects, entry \in NatsEntries : NatsFire(g, h, entry)
  \/ \E g \in Goroutines, key \in Keys : NatsFireRange(g, key)
  \/ \E g \in Goroutines, ok \in BOOLEAN : NatsFirePublish(g, ok)
  \/ \E g \in Goroutines : NatsFireReturn(g)
SpecNats == InitNats /\ [][NextNats]_vars

\* One goroutine, a Logger and a derived Logger with levels and hooks of their own.
InitDerived == InitOf({WriterConstruction})
NextDerived ==
  \/ LoggerCalls(DerivedRuns)
  \/ \E g \in DerivedRuns.G, l \in LoggerIds : GetLevel(g, l)
  \/ HookCalls(DerivedRuns)
  \/ EventCalls(DerivedRuns)
  \/ MsgSteps(DerivedRuns)
SpecDerived == InitDerived /\ [][NextDerived]_vars

\* One goroutine, two Loggers, AddHook and RemoveHook calls, alone and chained.
InitChain == InitOf({WriterConstruction})
NextChain ==
  \/ \E g \in ChainRuns.G, l \in LoggerIds, kv \in ChainRuns.with :
       Len(loggers) < ChainRuns.loggers /\ With(g, l, kv[1], kv[2])
  \/ HookCalls(ChainRuns)
  \/ \E g \in ChainRuns.G, l \in LoggerIds, hook \in ChainRuns.hooks :
       nAdds + 1 < ChainRuns.adds /\ AddHookChained(g, l, hook)
  \/ \E g \in ChainRuns.G, l \in LoggerIds, hook \in ChainRuns.hooks :
       nAdds < ChainRuns.adds /\ RemoveHookChained(g, l, hook)
  \/ \E g \in ChainRuns.G, hook \in ChainRuns.hooks :
       nAdds < ChainRuns.adds /\ ChainAddHook(g, hook)
  \/ EventCalls(ChainRuns)
  \/ MsgSteps(ChainRuns)
SpecChain == InitChain /\ [][NextChain]_vars

\* One goroutine, one Logger, hooks of which one writes to the entry.
InitMutate == InitOf({WriterConstruction})
NextMutate ==
  \/ HookCalls(MutateRuns)
  \/ EventCalls(MutateRuns)
  \/ MsgSteps(MutateRuns)
SpecMutate == InitMutate /\ [][NextMutate]_vars

\* Two goroutines, events of a Logger and of the Logger derived from it.
InitEvents == InitOf({WriterConstruction})
NextEvents ==
  \/ \E g \in EventRuns.G, l \in LoggerIds, kv \in EventRuns.with :
       Len(loggers) < EventRuns.loggers /\ With(g, l, kv[1], kv[2])
  \/ \E g \in EventRuns.G, l \in LoggerIds : nEvents < EventRuns.events /\ Info(g, l)
  \/ \E g \in EventRuns.G, l \in LoggerIds : nEvents < EventRuns.events /\ Error(g, l)
  \/ StrCalls(EventRuns)
  \/ \E g \in EventRuns.G, msg \in EventRuns.msgs : Msg(g, msg)
  \/ \E g \in EventRuns.G : MsgLock(g)
  \/ \E g \in EventRuns.G, ok \in EventRuns.writeOK : MsgWrite(g, ok)
  \/ \E g \in EventRuns.G : MsgEnd(g)
  \/ \E g \in EventRuns.G : MsgReturn(g)
SpecEvents == InitEvents /\ [][NextEvents]_vars

\* Two goroutines, one Logger, the clock ticking between the calls.
InitClock == InitOf({WriterConstruction})
NextClock ==
  \/ Tick
  \/ HookCalls(ClockRuns)
  \/ EventCalls(ClockRuns)
  \/ MsgSteps(ClockRuns)
SpecClock == InitClock /\ [][NextClock]_vars

\* One goroutine, two Loggers, a hook whose Fire calls SetLevel.
InitReentry == InitOf({WriterConstruction})
NextReentry ==
  \/ \E g \in ReentryRuns.G, l \in LoggerIds, kv \in ReentryRuns.with :
       Len(loggers) < ReentryRuns.loggers /\ With(g, l, kv[1], kv[2])
  \/ HookCalls(ReentryRuns)
  \/ EventCalls(ReentryRuns)
  \/ MsgSteps(ReentryRuns)
  \/ \E g \in ReentryRuns.G : MsgHookEnter(g)
  \/ \E g \in ReentryRuns.G : FireSetLevel(g)
SpecReentry == InitReentry /\ [][NextReentry]_vars

\* Two goroutines on one Logger under a fair scheduler: a goroutine that can
\* take a step of SetLevel or Msg takes it, every Write and Fire call returns,
\* and a goroutine waiting in Lock gets the lock if it is free again and again
\* (sync.Mutex hands the lock over to a waiter that is starving).
InitFair == InitOf({WriterConstruction})
NextFair ==
  \/ \E g \in FairRuns.G, l \in LoggerIds, level \in FairRuns.levels :
       nSets < FairRuns.sets /\ SetLevelLock(g, l, level)
  \/ \E g \in FairRuns.G : SetLevelStore(g)
  \/ \E g \in FairRuns.G, l \in LoggerIds : GetLevel(g, l)
  \/ HookCalls(FairRuns)
  \/ EventCalls(FairRuns)
  \/ MsgSteps(FairRuns)
Fairness ==
  \A g \in FairRuns.G :
    /\ WF_vars(SetLevelStore(g))
    /\ SF_vars(MsgLock(g))
    /\ WF_vars(\E ok \in FairRuns.writeOK : MsgWrite(g, ok))
    /\ WF_vars(\E ok \in FairRuns.fireOK : MsgHook(g, ok))
    /\ WF_vars(MsgEnd(g))
SpecFair == InitFair /\ [][NextFair]_vars /\ Fairness

\* ------------------------------------------------------------------ claims
\* What one Msg call did, read off the sink, the hooks and the goroutine.
Range(q) == {q[i] : i \in 1..Len(q)}
Writes(id) == Cardinality({i \in 1..Len(sink) : sink[i].gid = id})
Fires(id, hook) ==
  Cardinality({i \in 1..Len(fired) : fired[i].gid = id /\ fired[i].hook = hook})
Registrations(l, hook) ==
  Cardinality({i \in 1..Len(loggers[l].hooks) : loggers[l].hooks[i].hook = hook})
\* Msg is over: it returned, or it ended the process.
MsgOver(g) == pc[g] \in {"ret", "exit"}
\* The goroutine holds the entry that is serialized, written and dispatched.
Finalized(g) ==
  \/ pc[g] \in {"lock", "write", "hooks", "exit"}
  \/ pc[g] = "ret" /\ loc[g].out = "done"
\* Every field of the event can be encoded (the reserved keys are strings).
Serializable(e) == \A k \in Keys : Marshalable(e.fields[k])
\* The value the chain of With calls that made Logger l gives key k: that of the
\* nearest With on k, Absent when no With of the chain names k.
RECURSIVE Nearest(_, _)
Nearest(l, k) ==
  IF derivation[l].parent = 0 THEN Absent
  ELSE IF derivation[l].key = k THEN derivation[l].value
  ELSE Nearest(derivation[l].parent, k)
ReservedKeys == {"level", "time", "message"}

\* C1: a Msg call on an event requested at level L from a Logger whose minimum
\* level was M writes exactly one line when L >= M and nothing when L < M (for
\* an entry that can be serialized; the failure of json.Marshal is C19's case).
C1_LevelFilter ==
  \A g \in Goroutines :
    MsgOver(g) =>
      Writes(ev[g].gid) =
        IF ev[g].glevel >= ev[g].gmin /\ Serializable(ev[g]) THEN 1 ELSE 0

\* C1 witness: an event at exactly the minimum level Warn was written once.
C1_Witness ==
  \E g \in Goroutines :
    /\ pc[g] = "ret"
    /\ ev[g].glevel = WarnLevel /\ ev[g].gmin = WarnLevel
    /\ Writes(ev[g].gid) = 1

\* C2 (as claimed): in the finalized entry level, time and message hold the
\* event's level name, its formatted timestamp and the Msg text.
C2_ReservedKeysWin ==
  \A g \in Goroutines :
    Finalized(g) =>
      /\ loc[g].entry["level"] = StrV(String(ev[g].level))
      /\ loc[g].entry["time"] =
           StrV(Format(ev[g].time, loggers[ev[g].logger].timeFormat))
      /\ loc[g].entry["message"] = StrV(loc[g].msg)

\* C3: when the dispatch of an emission is over, a hook registered once on the
\* Logger was fired once if the event's level is among its Levels() and not at
\* all otherwise; a hook that is not registered was not fired.
C3_FiredOncePerSubscribedHook ==
  \A g \in Goroutines :
    (MsgOver(g) /\ loc[g].out = "done") =>
      \A h \in HookIds :
        /\ Registrations(ev[g].logger, h) = 1 =>
             Fires(ev[g].gid, h) =
               IF ev[g].level \in Range(HookLevels(h)) THEN 1 ELSE 0
        /\ Registrations(ev[g].logger, h) = 0 => Fires(ev[g].gid, h) = 0

\* C3 witness: hDup lists Info twice, is registered once, and an Info event
\* fired it once.
C3_Witness ==
  \E g \in Goroutines :
    /\ pc[g] = "ret" /\ loc[g].out = "done"
    /\ ev[g].level = InfoLevel
    /\ Registrations(ev[g].logger, "hDup") = 1
    /\ Fires(ev[g].gid, "hDup") = 1

\* C4: the hook list of every Logger is in the order of the AddHook calls, after
\* any AddHook and RemoveHook, and the Fire calls of one emission are in that order.
C4_RegistrationOrder ==
  /\ \A l \in LoggerIds : \A i, j \in 1..Len(loggers[l].hooks) :
       i < j => loggers[l].hooks[i].reg < loggers[l].hooks[j].reg
  /\ \A i, j \in 1..Len(fired) :
       (i < j /\ fired[i].gid = fired[j].gid) => fired[i].reg < fired[j].reg

\* C4 witness: three hooks were added, one was removed, and one emission fired
\* the two that remain.
C4_Witness ==
  \E g \in Goroutines :
    /\ pc[g] = "ret" /\ loc[g].out = "done"
    /\ nAdds = 3
    /\ Len(loggers[ev[g].logger].hooks) = 2
    /\ loggers[ev[g].logger].hooks[1].reg = 2
    /\ Cardinality({i \in 1..Len(fired) : fired[i].gid = ev[g].gid}) = 2

\* C5: a step never fires a hook whose registrations on the Logger were all
\* removed again, and no step changes the Fire calls already made.
C5_NoFireAfterRemove ==
  [][ /\ Len(fired') >= Len(fired)
      /\ SubSeq(fired', 1, Len(fired)) = fired
      /\ \A i \in (Len(fired) + 1)..Len(fired') :
           regCount[fired'[i].logger][fired'[i].hook] > 0 ]_vars

\* C5 witness: a hook fired for the first event, was removed, and the second
\* event, to whose level it subscribes, was emitted without firing it.
C5_Witness ==
  \E g \in Goroutines, h \in HookIds :
    /\ pc[g] = "ret" /\ loc[g].out = "done"
    /\ ev[g].gid = 2
    /\ Fires(1, h) = 1
    /\ regCount[ev[g].logger][h] = 0
    /\ ev[g].level \in Range(HookLevels(h))
    /\ Fires(2, h) = 0
    /\ \E i \in 1..Len(fired) : fired[i].gid = 1 /\ fired[i].logger = ev[g].logger

\* C6: whether Msg writes is decided by the minimum level newEvent read, not by
\* the level the Logger has when Msg runs: an event requested at or above the
\* minimum is written (when it can be serialized) after SetLevel raised the
\* minimum above it, and a nil event writes nothing after SetLevel lowered it.
C6_SetLevelOnlyLaterEvents ==
  \A g \in Goroutines :
    MsgOver(g) =>
      LET cur == loggers[ev[g].glogger].level
      IN  /\ (ev[g].glevel >= ev[g].gmin /\ cur > ev[g].glevel /\ Serializable(ev[g]))
               => Writes(ev[g].gid) = 1
          /\ (ev[g].glevel < ev[g].gmin /\ cur <= ev[g].glevel)
               => (ev[g].nil /\ Writes(ev[g].gid) = 0)

\* C6 witness: an Info event requested under minimum Info was written after
\* SetLevel(Error).
C6_Witness ==
  \E g \in Goroutines :
    /\ pc[g] = "ret"
    /\ ev[g].glevel = InfoLevel /\ ev[g].gmin = InfoLevel
    /\ loggers[ev[g].glogger].level = ErrorLevel
    /\ Writes(ev[g].gid) = 1

\* C7: an event requested below the minimum level is nil and stays nil through
\* every setter call; its Msg writes nothing, prints nothing, fires no hook and
\* does not end the process, whatever its level.
C7_NilEventIsNoOp ==
  \A g \in Goroutines :
    (ev[g].held /\ ev[g].glevel < ev[g].gmin) =>
      /\ ev[g].nil
      /\ ev[g].fields = EmptyFields
      /\ Writes(ev[g].gid) = 0
      /\ \A h \in HookIds : Fires(ev[g].gid, h) = 0
      /\ \A i \in 1..Len(stderr) : stderr[i].gid # ev[g].gid
      /\ pc[g] \notin {"lock", "write", "hooks", "exit"}
      /\ ~exited

\* C7 witness: a Fatal event below the minimum, after a chain of setter calls,
\* on a Logger with a hook subscribed to Fatal: Msg has returned.
C7_Witness ==
  \E g \in Goroutines :
    /\ pc[g] = "ret"
    /\ ev[g].glevel = FatalLevel /\ ev[g].glevel < ev[g].gmin
    /\ ev[g].gcalls = MaxChainLen
    /\ Registrations(ev[g].glogger, "hAll") = 1

\* C8: an entry emitted by a Logger contains every key of the With calls of its
\* chain, and, for a key no call-site setter set on the event, the value of the
\* nearest With of the chain on that key; the serialized line carries it.
C8_ContextChain ==
  \A g \in Goroutines :
    Finalized(g) =>
      \A k \in Keys :
        Nearest(ev[g].logger, k) # Absent =>
          /\ loc[g].entry[k] # Absent
          /\ k \notin ev[g].gset =>
               /\ loc[g].entry[k] = Nearest(ev[g].logger, k)
               /\ loc[g].jsonData.obj[k] = JSONValue(Nearest(ev[g].logger, k))

\* C8 witness: With("component", "api").With("component", "db") emits "db".
C8_Witness ==
  \E g \in Goroutines :
    /\ pc[g] = "hooks"
    /\ ev[g].logger = 3
    /\ derivation[3].parent = 2 /\ derivation[2].parent = 1
    /\ derivation[2].key = "component" /\ derivation[2].value = StrV("api")
    /\ derivation[3].key = "component" /\ derivation[3].value = StrV("db")
    /\ loc[g].entry["component"] = StrV("db")

\* C9: a With call leaves every Logger that exists unchanged (context fields,
\* level, hooks), and an entry holds no key other than the reserved keys, the
\* keys set at the call site and the keys of the With calls of its own Logger's
\* chain: a key added to a derived Logger is not in the parent's entries.
C9_WithLeavesReceiver ==
  /\ [][ Len(loggers') > Len(loggers) =>
           \A l \in 1..Len(loggers) : loggers'[l] = loggers[l] ]_vars
  /\ [](\A g \in Goroutines :
          Finalized(g) =>
            \A k \in Keys \ (ReservedKeys \cup ev[g].gset) :
              loc[g].entry[k] = Nearest(ev[g].logger, k))

\* C9 witness: the first Logger emits after With("component", ...) derived a
\* Logger from it, and its entry has no component.
C9_Witness ==
  \E g \in Goroutines :
    /\ pc[g] = "hooks"
    /\ ev[g].logger = 1
    /\ Len(loggers) >= 2
    /\ derivation[2].parent = 1 /\ derivation[2].key = "component"
    /\ loc[g].entry["component"] = Absent

\* C10 (as claimed): a Logger from New with no Level in its Options has minimum
\* level Info, as the Logger of NewConsoleLogger has, until SetLevel is called.
C10_DefaultLevelInfo ==
  (nSets = 0 /\ made.ctor = "New" /\ "Level" \notin made.given) =>
    loggers[1].level = InfoLevel

\* C11: a Fatal emission ends the process only after its line was handed to the
\* writer and every hook of the list that subscribes to Fatal has been fired;
\* the write comes before the first Fire call of the emission, and nothing is
\* written or fired once the process has ended.
C11_FatalOrder ==
  [][ /\ \A g \in Goroutines :
           (pc'[g] = "exit" /\ pc[g] # "exit") =>
             /\ ev[g].level = FatalLevel
             /\ Writes(ev[g].gid) = 1
             /\ \A i \in 1..Len(loggers[loc[g].on].hooks) :
                  ShouldFire(loggers[loc[g].on].hooks[i].hook, FatalLevel) =>
                    \E j \in 1..Len(fired) :
                      /\ fired[j].gid = ev[g].gid
                      /\ fired[j].reg = loggers[loc[g].on].hooks[i].reg
      /\ Len(sink') > Len(sink) =>
           \A j \in 1..Len(fired) : fired[j].gid # sink'[Len(sink')].gid
      /\ \A j \in (Len(fired) + 1)..Len(fired') : Writes(fired'[j].gid) = 1
      /\ exited => (exited' /\ sink' = sink /\ fired' = fired) ]_vars

\* C11 witness: the process ended on a Fatal event whose Write failed and whose
\* only subscribed hook, the second of the list, was fired.
C11_Witness ==
  \E g \in Goroutines :
    /\ exited /\ pc[g] = "exit"
    /\ Len(loggers[loc[g].on].hooks) = 2
    /\ loggers[loc[g].on].hooks[2].hook = "hAll"
    /\ Fires(ev[g].gid, "hAll") = 1
    /\ \E i \in 1..Len(stderr) : stderr[i] = Diag("write", ev[g].gid)

\* C12 (as claimed): Msg on an active Fatal event never returns to its caller:
\* on every path it ends with the termination of the process.
C12_FatalAlwaysTerminates ==
  \A g \in Goroutines :
    (pc[g] = "ret" /\ ~ev[g].nil) => ev[g].level # FatalLevel

\* The position of emission id's line in the sink (0: not written).
SinkIndex(id) ==
  IF \E i \in 1..Len(sink) : sink[i].gid = id
    THEN CHOOSE i \in 1..Len(sink) : sink[i].gid = id
    ELSE 0
\* The goroutine is between the Lock and the Unlock of Msg.
InMsgLocked(g) == pc[g] \in {"write", "hooks"}

\* C13: no two goroutines are at once between the Lock and the Unlock of Msg on
\* the same Logger, and the one that is there holds its lock; every Write call
\* carries the whole JSON object of its emission followed by one newline, and
\* an emission that went through made exactly one Write call.
C13_WritesExclusiveWholeLines ==
  /\ \A g1, g2 \in Goroutines :
       (g1 # g2 /\ InMsgLocked(g1) /\ InMsgLocked(g2)) => loc[g1].on # loc[g2].on
  /\ \A g \in Goroutines : InMsgLocked(g) => loggers[loc[g].on].mu = g
  /\ \A i \in 1..Len(sink) :
       /\ sink[i].data.nl = 1
       /\ \A j \in 1..Len(sink) : sink[j].gid = sink[i].gid => j = i
       /\ \A g \in Goroutines :
            (ev[g].held /\ ev[g].gid = sink[i].gid) =>
              sink[i].data.obj = Marshal(EntryOf(ev[g], loc[g].msg))
  /\ \A g \in Goroutines :
       (MsgOver(g) /\ loc[g].out = "done") => Writes(ev[g].gid) = 1

\* C13 witness: two goroutines have each emitted on the same Logger, both Msg
\* calls are still to return, and the sink holds the two lines.
C13_Witness ==
  \E g1, g2 \in Goroutines :
    /\ g1 # g2
    /\ pc[g1] = "ret" /\ loc[g1].out = "done"
    /\ pc[g2] = "hooks"
    /\ ev[g1].logger = ev[g2].logger
    /\ Len(sink) = 2

\* C14: the Fire calls of two emissions of the same Logger are not interleaved,
\* and they come in the order in which the two lines were written.
C14_DispatchSerialized ==
  \A i, j \in 1..Len(fired) :
    (i < j /\ fired[i].gid # fired[j].gid /\ fired[i].logger = fired[j].logger) =>
      /\ SinkIndex(fired[i].gid) > 0
      /\ SinkIndex(fired[i].gid) < SinkIndex(fired[j].gid)
      /\ \A k \in (j + 1)..Len(fired) : fired[k].gid # fired[i].gid

\* C14 witness: two goroutines are in Msg on the same Logger with two hooks at
\* the same time, and the four Fire calls have been made.
C14_Witness ==
  \E g1, g2 \in Goroutines :
    /\ pc[g1] = "ret" /\ loc[g1].out = "done"
    /\ pc[g2] = "ret" /\ loc[g2].out = "done"
    /\ g1 # g2
    /\ ev[g1].logger = ev[g2].logger
    /\ Len(fired) = 4
    /\ \A i \in 1..4 : fired[i].logger = ev[g1].logger

\* C15 (as claimed): no goroutine reads a Logger's level in newEvent while
\* another goroutine is inside SetLevel on that Logger, holding its lock.
C15_LevelReadUnderLock ==
  \A g \in Goroutines : ev[g].held => ~ev[g].graced

\* The five names.
LevelNameSet == {levelNames[l] : l \in DOMAIN levelNames}

\* C16: ParseLevel gives a Level for every string; on the text String gives for
\* one of the five levels it gives that level back, String of its result on one
\* of the five names is that name, and on every other string its result is Info.
C16_ParseLevelInverse ==
  \A g \in Goroutines :
    /\ loc[g].out = "String" /\ loc[g].arg \in Levels =>
         /\ loc[g].msg \in LevelNameSet
         /\ ParseLevel(loc[g].msg) = loc[g].arg
    /\ loc[g].out = "ParseLevel" =>
         /\ loc[g].arg \in Levels
         /\ loc[g].msg \in LevelNameSet => String(loc[g].arg) = loc[g].msg
         /\ loc[g].msg \notin LevelNameSet => loc[g].arg = InfoLevel

\* C16 witness: ParseLevel("DEBUG") returned Info while ParseLevel("fatal")
\* returned Fatal.
C16_Witness ==
  \E g1, g2 \in Goroutines :
    /\ loc[g1].out = "ParseLevel" /\ loc[g1].msg = "DEBUG" /\ loc[g1].arg = InfoLevel
    /\ loc[g2].out = "ParseLevel" /\ loc[g2].msg = "fatal" /\ loc[g2].arg = FatalLevel

\* The subject the claim describes: one pass over the template from the left, a
\* {key} whose entry is a string replaced by it, everything else copied, the
\* inserted text not looked at again.
RECURSIVE SubstituteOnce(_, _)
SubstituteOnce(s, entry) ==
  IF s = <<>> THEN <<>>
  ELSE IF \E k \in Keys :
            /\ entry[k].type = "string"
            /\ Len(s) >= Len(Placeholder(k))
            /\ SubSeq(s, 1, Len(Placeholder(k))) = Placeholder(k)
    THEN LET k == CHOOSE k \in Keys :
                    /\ entry[k].type = "string"
                    /\ Len(s) >= Len(Placeholder(k))
                    /\ SubSeq(s, 1, Len(Placeholder(k))) = Placeholder(k)
         IN  Chars(entry[k].val)
               \o SubstituteOnce(SubSeq(s, Len(Placeholder(k)) + 1, Len(s)), entry)
    ELSE <<s[1]>> \o SubstituteOnce(Tail(s), entry)

\* C17 (as claimed): the subject Fire publishes to is the template after one
\* substitution pass that never substitutes inserted text, and two Fire calls
\* with the same template and entry publish to the same subject.
C17_SubjectSinglePass ==
  /\ \A g \in Goroutines :
       pc[g] = "published" =>
         loc[g].subject = SubstituteOnce(Chars(loc[g].msg), loc[g].entry)
  /\ \A g1, g2 \in Goroutines :
       (/\ pc[g1] = "published" /\ pc[g2] = "published"
        /\ loc[g1].msg = loc[g2].msg /\ loc[g1].entry = loc[g2].entry)
         => loc[g1].subject = loc[g2].subject

\* C18: a step that is Err(nil) on an active event leaves every field of the
\* event as it was, an error field set before included; a step that is
\* Err(e), e not nil, sets the field error to e's text and no other field.
C18_ErrFrame ==
  [][ \A g \in Goroutines :
        (ev[g].held /\ ~ev[g].nil) =>
          /\ Err(g, "nil") => ev'[g].fields = ev[g].fields
          /\ Err(g, "boom") =>
               /\ ev'[g].fields["error"] = StrV("boom")
               /\ \A k \in Keys \ {"error"} : ev'[g].fields[k] = ev[g].fields[k] ]_vars

\* C18 witness: after Err(e) and a second Err call the event carries e's text
\* under error, and nothing under the other keys.
C18_Witness ==
  \E g \in Goroutines :
    /\ ev[g].held /\ ~ev[g].nil
    /\ ev[g].gcalls = 2 /\ ev[g].gset = {"error"}
    /\ ev[g].fields = [EmptyFields EXCEPT !["error"] = StrV("boom")]

\* C19: Msg on an active event with a field json.Marshal rejects returns at
\* once: the step changes no Logger (lock, level, hook list), writes nothing
\* and fires nothing, and the goroutine never waits for or holds the lock for
\* that event; no line and no Fire call of that event ever exists.
C19_MarshalFailureAborts ==
  /\ [][ \A g \in Goroutines :
           (/\ ev[g].held /\ ~ev[g].nil /\ ~Serializable(ev[g])
            /\ pc[g] = "idle" /\ pc'[g] \notin {"idle", "SetLevel"}) =>
             /\ pc'[g] = "ret"
             /\ loggers' = loggers /\ sink' = sink /\ fired' = fired ]_vars
  /\ [](\A g \in Goroutines :
          (ev[g].held /\ ~ev[g].nil /\ ~Serializable(ev[g])) =>
            /\ pc[g] \in {"idle", "SetLevel", "ret"}
            /\ Writes(ev[g].gid) = 0
            /\ \A h \in HookIds : Fires(ev[g].gid, h) = 0)

\* C19 witness: Msg returned on the marshal error, for an Error event of a
\* Logger with a hook subscribed to every level; the diagnostic was printed.
C19_Witness ==
  \E g \in Goroutines :
    /\ pc[g] = "ret" /\ loc[g].out = "marshal"
    /\ ev[g].level = ErrorLevel
    /\ Registrations(ev[g].logger, "hAll") = 1
    /\ stderr = <<Diag("marshal", ev[g].gid)>>
    /\ sink = <<>> /\ fired = <<>>

\* The Fire calls of emission id that returned an error.
HookErrors(id) == Cardinality({i \in 1..Len(stderr) : stderr[i] = Diag("hook", id)})

\* C20: when the dispatch of an emission in which a Fire call returned an error
\* is over, every hook of the list that subscribes to the event's level was
\* fired once for each of its registrations, and the emission of a Fatal event
\* has ended the process.
C20_HookErrorDoesNotStopDispatch ==
  \A g \in Goroutines :
    (MsgOver(g) /\ loc[g].out = "done" /\ HookErrors(ev[g].gid) > 0) =>
      /\ \A h \in HookIds :
           ev[g].level \in Range(HookLevels(h)) =>
             Fires(ev[g].gid, h) = Registrations(ev[g].logger, h)
      /\ ev[g].level = FatalLevel => (exited /\ pc[g] = "exit")

\* C20 witness: a Fatal event on a Logger with two hooks: both Fire calls
\* returned an error, both were made, and the process has ended.
C20_Witness ==
  \E g \in Goroutines :
    /\ pc[g] = "exit" /\ exited
    /\ ev[g].level = FatalLevel
    /\ Len(loggers[ev[g].logger].hooks) = 2
    /\ HookErrors(ev[g].gid) = 2
    /\ Fires(ev[g].gid, "hAll") = 2

\* The Write calls of emission id that returned an error.
WriteErrors(id) == Cardinality({i \in 1..Len(stderr) : stderr[i] = Diag("write", id)})

\* C21: when an emission whose Write call returned an error is over, the
\* writer was called once for it, every hook of the list that subscribes to
\* the event's level was fired once for each of its registrations, in the
\* order of the list, and the emission of a Fatal event has ended the process.
C21_WriteErrorNotPropagated ==
  \A g \in Goroutines :
    (MsgOver(g) /\ loc[g].out = "done" /\ WriteErrors(ev[g].gid) > 0) =>
      /\ Writes(ev[g].gid) = 1
      /\ WriteErrors(ev[g].gid) = 1
      /\ \A h \in HookIds :
           ev[g].level \in Range(HookLevels(h)) =>
             Fires(ev[g].gid, h) = Registrations(ev[g].logger, h)
      /\ \A i, j \in 1..Len(fired) :
           (i < j /\ fired[i].gid = ev[g].gid /\ fired[j].gid = ev[g].gid) =>
             fired[i].reg < fired[j].reg
      /\ ev[g].level = FatalLevel => (exited /\ pc[g] = "exit")

\* C21 witness: the Write of an Error event failed, and the two hooks of the
\* list, both subscribed to Error, were fired after it; Msg returned.
C21_Witness ==
  \E g \in Goroutines :
    /\ pc[g] = "ret" /\ loc[g].out = "done"
    /\ ev[g].level = ErrorLevel
    /\ WriteErrors(ev[g].gid) = 1
    /\ Len(loggers[ev[g].logger].hooks) = 2
    /\ Fires(ev[g].gid, "hInfoErr") = 1 /\ Fires(ev[g].gid, "hAll") = 1

\* C22: the level of a Logger changes only in the store of a SetLevel call on
\* that very Logger; a Logger from With starts with the level its parent has at
\* that moment; GetLevel returns, and newEvent compares with, the Logger's own
\* level.
C22_DerivedLevelIsCopy ==
  [][ /\ \A l \in 1..Len(loggers) :
           loggers'[l].level # loggers[l].level =>
             \E g \in Goroutines :
               /\ pc[g] = "SetLevel" /\ pc'[g] = "idle"
               /\ loc[g].on = l /\ loggers'[l].level = loc[g].arg
      /\ Len(loggers') > Len(loggers) =>
           loggers'[Len(loggers')].level =
             loggers[derivation'[Len(loggers')].parent].level
      /\ \A g \in Goroutines :
           /\ (loc'[g].out = "GetLevel" /\ loc'[g] # loc[g]) =>
                loc'[g].arg = loggers[loc'[g].on].level
           /\ (ev'[g].held /\ ~ev[g].held) =>
                (ev'[g].nil <=> ev'[g].glevel < loggers[ev'[g].glogger].level) ]_vars

\* C22 witness: the parent was set to Error after the derivation; GetLevel on
\* the derived Logger still returns Debug, and its Info event was written.
C22_Witness ==
  \E g \in Goroutines :
    /\ Len(loggers) = 2
    /\ loggers[1].level = ErrorLevel /\ loggers[2].level = DebugLevel
    /\ Len(sink) = 1 /\ sink[1].data.obj["level"].text = "info"
    /\ loc[g].out = "GetLevel" /\ loc[g].on = 2 /\ loc[g].arg = DebugLevel

\* C23: the hook list of every Logger holds what the AddHook and RemoveHook
\* calls on that very Logger left in it, so a Logger from With starts with none
\* and no call on one Logger changes the list of another; an emission fires
\* the hooks of the list of its own Logger and no other.
C23_DerivedStartsHookless ==
  /\ \A l \in LoggerIds : \A h \in HookIds :
       Registrations(l, h) = regCount[l][h]
  /\ \A g \in Goroutines :
       (MsgOver(g) /\ loc[g].out = "done") =>
         \A h \in HookIds :
           Fires(ev[g].gid, h) =
             IF ev[g].level \in Range(HookLevels(h))
               THEN regCount[ev[g].logger][h] ELSE 0

\* C23 witness: a hook subscribed to every level is registered on the parent,
\* the derived Logger has emitted, and the hook was not fired.
C23_Witness ==
  \E g \in Goroutines :
    /\ pc[g] = "ret" /\ loc[g].out = "done"
    /\ ev[g].logger = 2
    /\ Registrations(1, "hAll") = 1 /\ Registrations(2, "hAll") = 0
    /\ Writes(ev[g].gid) = 1
    /\ fired = <<>>

\* hs without its element i.
Without(hs, i) == [j \in 1..(Len(hs) - 1) |-> IF j < i THEN hs[j] ELSE hs[j + 1]]

\* C24: a step that is AddHook(h) on Logger l puts h after the hooks l had, also
\* when h is among them; a step that is RemoveHook(h) on l takes the first h
\* out of the list and keeps the rest as it was, or changes nothing when h is
\* not in it; neither changes another Logger; the call chained to either acts
\* on l itself; and a hook is fired once for each of its registrations.
C24_AddRemoveHook ==
  /\ [][ \A g \in Goroutines, l \in 1..Len(loggers), h \in HookIds :
           LET hs == loggers[l].hooks
               hs2 == loggers'[l].hooks
           IN  /\ (AddHook(g, l, h) \/ AddHookChained(g, l, h)
                      \/ (pc[g] = "chain" /\ loc[g].on = l /\ ChainAddHook(g, h))) =>
                     /\ Len(hs2) = Len(hs) + 1
                     /\ SubSeq(hs2, 1, Len(hs)) = hs
                     /\ hs2[Len(hs2)].hook = h
                     /\ \A k \in 1..Len(loggers) \ {l} : loggers'[k] = loggers[k]
               /\ (RemoveHook(g, l, h) \/ RemoveHookChained(g, l, h)) =>
                     /\ IF \A i \in 1..Len(hs) : hs[i].hook # h
                          THEN hs2 = hs
                          ELSE \E i \in 1..Len(hs) :
                                 /\ hs[i].hook = h
                                 /\ \A j \in 1..(i - 1) : hs[j].hook # h
                                 /\ hs2 = Without(hs, i)
                     /\ \A k \in 1..Len(loggers) \ {l} : loggers'[k] = loggers[k]
               /\ (AddHookChained(g, l, h) \/ RemoveHookChained(g, l, h)) =>
                     (pc'[g] = "chain" /\ loc'[g].on = l) ]_vars
  /\ [](\A g \in Goroutines :
          (MsgOver(g) /\ loc[g].out = "done") =>
            \A h \in HookIds :
              ev[g].level \in Range(HookLevels(h)) =>
                Fires(ev[g].gid, h) = Registrations(ev[g].logger, h))

\* C24 witness: hAll, hInfoErr and hAll again were added to a Logger, the
\* first hAll was removed, and an Info event fired hInfoErr, then hAll.
C24_Witness ==
  \E g \in Goroutines :
    /\ pc[g] = "ret" /\ loc[g].out = "done"
    /\ ev[g].level = InfoLevel
    /\ loggers[ev[g].logger].hooks =
         <<[hook |-> "hInfoErr", reg |-> 2], [hook |-> "hAll", reg |-> 3]>>
    /\ Len(fired) = 2 /\ fired[1].hook = "hInfoErr" /\ fired[2].hook = "hAll"

\* C25 (as claimed): the entry every Fire call receives is the entry that was
\* serialized into the line of its emission, whatever hooks fired before did.
C25_HooksSeeFinalizedEntry ==
  \A i \in 1..Len(fired) :
    /\ SinkIndex(fired[i].gid) > 0
    /\ Marshal(fired[i].entry) = sink[SinkIndex(fired[i].gid)].data.obj

\* C26: a field-setter step on an event changes no Logger and no event held by
\* another goroutine; the context fields of every Logger stay those of its
\* With chain; an event holds, under a key no setter was called with, the value
\* of its Logger's chain; and in an entry a key set at the call site holds the
\* value set there, the other keys of the chain the chain's value.
C26_EventFieldsPrivate ==
  /\ [][ \A g \in Goroutines :
           ev'[g].gcalls = ev[g].gcalls + 1 =>
             /\ loggers' = loggers
             /\ \A g2 \in Goroutines \ {g} : ev'[g2] = ev[g2] ]_vars
  /\ [](/\ \A l \in LoggerIds : \A k \in Keys :
            loggers[l].contextFields[k] = Nearest(l, k)
        /\ \A g \in Goroutines :
             (ev[g].held /\ ~ev[g].nil) =>
               \A k \in Keys \ ev[g].gset : ev[g].fields[k] = Nearest(ev[g].logger, k)
        /\ \A g \in Goroutines :
             Finalized(g) =>
               \A k \in Keys \ ReservedKeys :
                 loc[g].entry[k] =
                   IF k \in ev[g].gset THEN ev[g].fields[k]
                   ELSE Nearest(ev[g].logger, k))

\* C26 witness: two events of the Logger with context component = "api": one
\* was given component = "x" at the call site and its entry says "x", the entry
\* of the other, created after it, and the Logger still say "api".
C26_Witness ==
  \E g1, g2 \in Goroutines :
    /\ g1 # g2
    /\ ev[g1].logger = 2 /\ ev[g2].logger = 2
    /\ ev[g1].gid = 1 /\ ev[g2].gid = 2
    /\ Finalized(g1) /\ Finalized(g2)
    /\ "component" \in ev[g1].gset /\ ev[g2].gset = {}
    /\ loc[g1].entry["component"] = StrV("x")
    /\ loc[g2].entry["component"] = StrV("api")
    /\ loggers[2].contextFields["component"] = StrV("api")

\* C27: an active event takes the clock value of the step that creates it and
\* keeps it; the time of its entry, and of its line in the sink, is that value
\* formatted, whatever the clock shows when Msg runs.
C27_TimeOfCreation ==
  /\ [][ \A g \in Goroutines :
           /\ (ev'[g].held /\ ~ev[g].held /\ ~ev'[g].nil) => ev'[g].time = now
           /\ (ev'[g].held /\ ev[g].held) => ev'[g].time = ev[g].time ]_vars
  /\ [](\A g \in Goroutines :
          Finalized(g) =>
            /\ loc[g].entry["time"] =
                 StrV(Format(ev[g].time, loggers[ev[g].logger].timeFormat))
            /\ SinkIndex(ev[g].gid) > 0 =>
                 sink[SinkIndex(ev[g].gid)].data.obj["time"].text =
                   Format(ev[g].time, loggers[ev[g].logger].timeFormat))

\* C27 witness: the event created at clock 0 was emitted after the event
\* created at clock 1: the sink holds time 1, then time 0.
C27_Witness ==
  /\ Len(sink) = 2
  /\ sink[1].gid = 2 /\ sink[2].gid = 1
  /\ sink[1].data.obj["time"].text = Format(1, RFC3339)
  /\ sink[2].data.obj["time"].text = Format(0, RFC3339)
  /\ now = 1

\* C28 (as claimed): no two goroutines are at once between the Lock of Msg and
\* the return of its Write call with Loggers that write to the same sink.
C28_SharedSinkExclusive ==
  \A g1, g2 \in Goroutines :
    (g1 # g2 /\ pc[g1] = "write" /\ pc[g2] = "write") =>
      loggers[loc[g1].on].writer # loggers[loc[g2].on].writer

\* C29 (as claimed): a goroutine inside the Fire of a hook that calls SetLevel
\* is never waiting for a lock it holds itself, so Fire returns and Msg goes on.
C29_NoDeadlockOnReentry ==
  \A g \in Goroutines : pc[g] = "fire" => loggers[ReentryTarget].mu # g

\* C30: a Msg that has returned does not hold a lock, whether or not its Write
\* or a Fire call returned an error; a goroutine waiting in the Lock of Msg
\* gets the lock, and a lock that is held (so that SetLevel, GetLevel, AddHook
\* and RemoveHook wait) becomes free, unless a Fatal event ends the process.
C30_MsgReleasesLock ==
  /\ [](\A g \in Goroutines : \A l \in LoggerIds :
          pc[g] \in {"ret", "idle"} => loggers[l].mu # g)
  /\ \A g \in Goroutines : (pc[g] = "lock") ~> (pc[g] = "write" \/ exited)
  /\ (loggers[1].mu # NoGoroutine) ~> (loggers[1].mu = NoGoroutine \/ exited)

\* a Msg whose Write and Fire calls returned errors has returned, and the
\* other goroutine has got the lock in its own Msg
C30_Witness ==
  \E g1, g2 \in Goroutines :
    /\ g1 # g2
    /\ pc[g1] = "ret" /\ loc[g1].out = "done"
    /\ WriteErrors(ev[g1].gid) = 1 /\ HookErrors(ev[g1].gid) = 1
    /\ pc[g2] = "write" /\ loggers[ev[g2].logger].mu = g2
    /\ ev[g2].logger = ev[g1].logger

====
